---- MODULE Spec2Model ----
(***************************************************************************)
(* The HTTP examples of go-web-app as a state machine: the example         *)
(* programs (logging middleware, Wrap, WithDB behind context.ClearHandler, *)
(* Adapt with a list of adapters) serving concurrent requests, one         *)
(* goroutine per request.  A handler is the sequence of its layers,        *)
(* outermost first, ending in the terminal handler; a request's goroutine  *)
(* is a stack of entered layers plus the direction it is moving in.        *)
(***************************************************************************)
EXTENDS Integers, Sequences, FiniteSets, TLC

\* Number of requests the server accepts in one run.
NumReq == 2
\* Longest adapter list, besides the documented one, handed to Adapt.
MaxAdapters == 2
\* Number of requests served through an adapter list other than the
\* documented one.
ChainReq == 1

Requests == 1..NumReq

StatusOK == 200
StatusUnauthorized == 401
StatusNotFound == 404
StatusInternalServerError == 500

-----------------------------------------------------------------------------
(* Values of the request context (gorilla/context stores interface{}).      *)

Nil == [kind |-> "nil", id |-> 0]
logger == [kind |-> "logger", id |-> 0]
SessionVal(i) == [kind |-> "session", id |-> i]

Keys == {"db", "logger"}
EmptyContext == [k \in Keys |-> Nil]

-----------------------------------------------------------------------------
(* Paths and patterns.  A path is the sequence of its segments; a trailing  *)
(* slash is a final empty segment, so "/" is <<"">> and "/foo" is <<"foo">>.*)

Lit(s) == [var |-> FALSE, s |-> s]
Var(n) == [var |-> TRUE, s |-> n]

\* net/http ServeMux: a pattern ending in "/" names a subtree, any other
\* pattern names exactly one path.
MuxPatternMatches(pat, path) ==
  IF pat[Len(pat)].s = ""
  THEN /\ Len(path) >= Len(pat)
       /\ \A i \in 1..(Len(pat) - 1) : path[i] = pat[i].s
  ELSE /\ Len(path) = Len(pat)
       /\ \A i \in 1..Len(pat) : path[i] = pat[i].s

\* gorilla/mux Router.Handle(path, ...): the whole path is matched, a
\* {name} segment matches one non-empty segment.
RouterPatternMatches(pat, path) ==
  /\ Len(path) = Len(pat)
  /\ \A i \in 1..Len(pat) :
       IF pat[i].var THEN path[i] # "" ELSE path[i] = pat[i].s

-----------------------------------------------------------------------------
(* Handlers.                                                                *)

\* func logging(f http.HandlerFunc) http.HandlerFunc
logging(f) == <<"logging">> \o f
\* func Wrap(h http.Handler) http.Handler
Wrap(h) == <<"wrapper">> \o h
\* func WithDB(s *mgo.Session, h http.Handler) http.Handler
WithDB(h) == <<"dbwrapper">> \o h
\* context.ClearHandler(h)
ClearHandler(h) == <<"ClearHandler">> \o h
\* http.StripPrefix(prefix, h)
StripPrefix(h) == <<"StripPrefix">> \o h
\* An Adapter is a func(http.Handler) http.Handler; calling it wraps h.
CallAdapter(adapter, h) == <<adapter>> \o h

RECURSIVE AdaptFrom(_, _, _)
AdaptFrom(h, adapters, i) ==
  IF i > Len(adapters) THEN h
  ELSE AdaptFrom(CallAdapter(adapters[i], h), adapters, i + 1)

RECURSIVE AdaptDownFrom(_, _, _)
AdaptDownFrom(h, adapters, i) ==
  IF i < 1 THEN h
  ELSE AdaptDownFrom(CallAdapter(adapters[i], h), adapters, i - 1)

\* Adapt as it would be if it walked the adapters from the last to the first.
AdaptReversed(h, adapters) == AdaptDownFrom(h, adapters, Len(adapters))

\* for _, adapter := range adapters { h = adapter(h) }; return h
Adapt(h, adapters) == AdaptFrom(h, adapters, 1)

AdapterKinds == {"addHeader", "CheckAuth", "CopyMgoSession", "Notify"}
DocumentedAdapters == <<"addHeader", "CheckAuth", "CopyMgoSession", "Notify">>
AdapterLists ==
  {DocumentedAdapters} \cup UNION {[1..k -> AdapterKinds] : k \in 0..MaxAdapters}

Programs ==
  {"logging", "wrap", "things", "adapt", "sharing", "books", "static", "todo", "respond"}

\* The routes with /bar registered by a copy of the /foo line.
RoutesCopyPaste(prog, adapters) ==
  IF prog = "logging"
  THEN << [pattern |-> <<Lit("foo")>>, handler |-> logging(<<"foo">>)],
          [pattern |-> <<Lit("bar")>>, handler |-> logging(<<"foo">>)] >>
  ELSE << [pattern |-> <<Lit("")>>, handler |-> <<"NotFound">>] >>

\* The routes each program's main registers, in registration order.
Routes(prog, adapters) ==
  CASE prog = "logging" ->
         << [pattern |-> <<Lit("foo")>>, handler |-> logging(<<"foo">>)],
            [pattern |-> <<Lit("bar")>>, handler |-> logging(<<"bar">>)] >>
    [] prog = "wrap" ->
         << [pattern |-> <<Lit("")>>, handler |-> Wrap(<<"handler">>)] >>
    [] prog = "things" ->
         << [pattern |-> <<Lit("things")>>, handler |-> WithDB(<<"handleThingsRead">>)],
            [pattern |-> <<Lit("status")>>, handler |-> <<"handleStatus">>] >>
    [] prog = "adapt" ->
         << [pattern |-> <<Lit("")>>, handler |-> Adapt(<<"indexHandler">>, adapters)] >>
    [] prog = "sharing" ->
         << [pattern |-> <<Lit("")>>,
             handler |-> <<"prepareSomething", "handleSomethingElse">>] >>
    [] prog = "books" ->
         << [pattern |-> <<Lit("books"), Var("title"), Lit("page"), Var("page")>>,
             handler |-> <<"bookHandler">>],
            [pattern |-> <<Lit("static"), Lit("")>>,
             handler |-> StripPrefix(<<"FileServer">>)] >>
    [] prog = "static" ->
         << [pattern |-> <<Lit("static"), Lit("")>>,
             handler |-> StripPrefix(<<"FileServer">>)] >>
    [] prog = "todo" ->
         << [pattern |-> <<Lit("")>>, handler |-> <<"todoHandler">>] >>
    [] prog = "respond" ->
         << [pattern |-> <<Lit("")>>, handler |-> <<"handleSomething">>] >>

\* The handler given to http.ListenAndServe (nil is http.DefaultServeMux).
RootHandler(prog) ==
  CASE prog = "things" -> ClearHandler(<<"Router">>)
    [] prog = "books" -> <<"Router">>
    [] OTHER -> <<"ServeMux">>

\* ServeMux picks the longest matching pattern, else http.NotFoundHandler.
ServeMuxHandler(routes, path) ==
  LET ms == {i \in 1..Len(routes) : MuxPatternMatches(routes[i].pattern, path)}
  IN IF ms = {} THEN <<"NotFound">>
     ELSE routes[CHOOSE i \in ms :
                   \A j \in ms : Len(routes[j].pattern) <= Len(routes[i].pattern)].handler

\* mux.Router picks the first matching route, else its NotFoundHandler.
RouterHandler(routes, path) ==
  LET ms == {i \in 1..Len(routes) : RouterPatternMatches(routes[i].pattern, path)}
  IN IF ms = {} THEN <<"NotFound">>
     ELSE routes[CHOOSE i \in ms : \A j \in ms : i <= j].handler

\* mux.Vars(r): the bindings of the matched route's {name} segments.
RouterVars(routes, path) ==
  LET ms == {i \in 1..Len(routes) : RouterPatternMatches(routes[i].pattern, path)}
  IN IF ms = {} THEN {}
     ELSE LET pat == routes[CHOOSE i \in ms : \A j \in ms : i <= j].pattern
          IN {<<pat[i].s, path[i]>> : i \in {j \in 1..Len(pat) : pat[j].var}}

\* vars[name]: the bound segment, "" for a name that is not bound
VarsGet(vs, name) ==
  IF \E b \in vs : b[1] = name THEN (CHOOSE b \in vs : b[1] = name)[2] ELSE ""

\* strings.HasPrefix(r.URL.Path, "/static/")
HasStaticPrefix(path) == Len(path) >= 2 /\ path[1] = "static"
\* strings.TrimPrefix(r.URL.Path, "/static/")
TrimStaticPrefix(path) == IF HasStaticPrefix(path) THEN Tail(path) ELSE path

\* Request paths each program is exercised with.
Paths(prog) ==
  CASE prog = "logging" -> {<<"foo">>, <<"bar">>, <<"baz">>, <<"foo", "">>}
    [] prog = "things" -> {<<"things">>, <<"status">>}
    [] prog = "adapt" -> {<<"">>}
    [] prog = "todo" -> {<<"">>}
    [] prog = "respond" -> {<<"">>}
    [] prog = "books" -> {<<"books", "dune", "page", "10">>,
                          <<"books", "dune", "x", "page", "10">>,
                          <<"static", "css", "styles.css">>, <<"static", "">>}
    [] prog = "static" -> {<<"static", "css", "styles.css">>, <<"static", "">>, <<"other">>}
    [] OTHER -> {<<"">>, <<"x">>}

-----------------------------------------------------------------------------
VARIABLES
  program,   \* which example's main is running
  adapters,  \* the adapter list main passes to Adapt
  req,       \* per request: its goroutine
  trace,     \* per request: what ran, in order: <<position, layer, phase>>
  ctx,       \* gorilla/context: request -> key -> value
  mgo,       \* the dialled session and the copies made of it
  clears,    \* per request: how many times context.Clear(r) ran
  server     \* the process: the template file it is given, and how far main got

vars == <<program, adapters, req, trace, ctx, mgo, clears, server>>

\* layout.html as main finds it: well formed, not parseable, or parseable
\* but referring to something the page data lacks.
Templates == {"ok", "malformed", "mismatch"}

NoRequest ==
  [state |-> "idle", path |-> <<>>, auth |-> TRUE, chain |-> <<>>, frames |-> <<>>,
   mode |-> "call", status |-> 0, header |-> FALSE, got |-> Nil,
   vars |-> {}, out |-> <<>>, file |-> <<>>,
   w |-> <<>>, log |-> <<>>, err |-> FALSE,
   input |-> [status |-> 0, encodes |-> TRUE, copies |-> TRUE]]

Init ==
  /\ program \in Programs
  /\ adapters \in (IF program = "adapt" THEN AdapterLists ELSE {<<>>})
  /\ req = [r \in Requests |-> NoRequest]
  /\ trace = [r \in Requests |-> <<>>]
  /\ ctx = [r \in Requests |-> EmptyContext]
  /\ mgo = [base |-> 0, copies |-> <<>>]
  /\ clears = [r \in Requests |-> 0]
  /\ \E t \in (IF program = "todo" THEN Templates ELSE {"none"}) :
       server = [tmpl |-> t, state |-> "starting"]

\* A context that is one map for all requests.
ContextSetShared(c, r, key, val) == [q \in DOMAIN c |-> [c[q] EXCEPT ![key] = val]]

\* context.Set(r, key, val)
ContextSet(c, r, key, val) == [c EXCEPT ![r][key] = val]
\* context.Get(r, key)
ContextGet(c, r, key) == c[r][key]
\* context.Clear(r)
ContextClear(c, r) == [c EXCEPT ![r] = EmptyContext]

\* s.Copy(): a new session, owned by request r, not yet closed
SessionCopy(m, r) ==
  [m EXCEPT !.copies = Append(@, [owner |-> r, closes |-> 0, closedBy |-> 0])]
\* s.Close() on copy i, called by request r
SessionClose(m, i, r) ==
  [m EXCEPT !.copies[i].closes = @ + 1, !.copies[i].closedBy = r]

Depth(r) == Len(req[r].frames)
\* The goroutine of r is about to call a handler of kind k.
Calling(r, k) ==
  /\ req[r].state = "running"
  /\ req[r].mode = "call"
  /\ req[r].chain[Depth(r) + 1] = k
\* Control is back in the layer of kind k, by return or by a panic unwinding.
BackIn(r, k) ==
  /\ req[r].state = "running"
  /\ req[r].mode \in {"ret", "panic"}
  /\ Depth(r) > 0
  /\ req[r].chain[Depth(r)] = k

Event(r, phase) == <<Depth(r) + 1, req[r].chain[Depth(r) + 1], phase>>
ExitEvent(r, phase) == <<Depth(r), req[r].chain[Depth(r)], phase>>

\* The layer runs its code before the call and calls the handler it wraps.
CallNext(r, local) ==
  /\ req' = [req EXCEPT ![r].frames = Append(@, local)]
  /\ trace' = [trace EXCEPT ![r] = Append(@, Event(r, "pre"))]
\* The layer's frame is left; phase says whether code ran on the way out.
Leave(r, phase) ==
  /\ req' = [req EXCEPT ![r].frames = SubSeq(@, 1, Len(@) - 1)]
  /\ trace' = [trace EXCEPT ![r] = Append(@, ExitEvent(r, phase))]
\* A terminal handler runs: writes status st (0: nothing) and returns or panics.
Terminal(r, st, mode, got) ==
  /\ req' = [req EXCEPT ![r].mode = mode,
                        ![r].status = IF @ = 0 THEN st ELSE @,
                        ![r].got = got]
  /\ trace' = [trace EXCEPT ![r] = Append(@, Event(r, "run"))]

-----------------------------------------------------------------------------
\* The server accepts a connection and starts a goroutine that calls the
\* root handler.  Connections are accepted one after the other.
Accept(r) ==
  /\ server.state = "listening"
  /\ req[r].state = "idle"
  /\ \A q \in Requests : q < r => req[q].state # "idle"
  /\ (program = "adapt" /\ adapters # DocumentedAdapters) => r <= ChainReq
  /\ \E p \in Paths(program), a \in BOOLEAN :
       /\ a = FALSE => "CheckAuth" \in {adapters[i] : i \in 1..Len(adapters)}
       /\ req' = [req EXCEPT ![r] = [NoRequest EXCEPT !.state = "running", !.path = p,
                                        !.auth = a, !.chain = RootHandler(program)]]
  /\ UNCHANGED <<program, adapters, server, trace, ctx, mgo, clears>>

\* main, up to http.ListenAndServe.  template.Must panics on a template that
\* does not parse, which ends the process before it listens.
main ==
  /\ server.state = "starting"
  /\ server' = [server EXCEPT !.state = IF server.tmpl = "malformed" THEN "exited"
                                                                     ELSE "listening"]
  /\ UNCHANGED <<program, adapters, req, trace, ctx, mgo, clears>>

\* http.DefaultServeMux.ServeHTTP
ServeMuxServe(r) ==
  /\ Calling(r, "ServeMux")
  /\ req' = [req EXCEPT ![r].frames = Append(@, 0),
                        ![r].chain = @ \o ServeMuxHandler(Routes(program, adapters), req[r].path)]
  /\ trace' = [trace EXCEPT ![r] = Append(@, Event(r, "pre"))]
  /\ UNCHANGED <<program, adapters, server, ctx, mgo, clears>>

\* mux.Router.ServeHTTP
RouterServe(r) ==
  /\ Calling(r, "Router")
  /\ req' = [req EXCEPT ![r].frames = Append(@, 0),
                        ![r].chain = @ \o RouterHandler(Routes(program, adapters), req[r].path),
                        ![r].vars = RouterVars(Routes(program, adapters), req[r].path)]
  /\ trace' = [trace EXCEPT ![r] = Append(@, Event(r, "pre"))]
  /\ UNCHANGED <<program, adapters, server, ctx, mgo, clears>>

\* A layer with nothing to run after the call returns, or whose code after
\* the call is skipped by a panic.
Return(r) ==
  /\ \/ \E k \in {"ServeMux", "Router", "logging", "addHeader", "CheckAuth",
                  "prepareSomething", "StripPrefix"} : BackIn(r, k)
     \/ BackIn(r, "wrapper") /\ req[r].mode = "panic"
  /\ Leave(r, "exit")
  /\ UNCHANGED <<program, adapters, server, ctx, mgo, clears>>

\* The outermost handler has returned (or net/http recovered its panic).
Finish(r) ==
  /\ req[r].state = "running"
  /\ req[r].mode \in {"ret", "panic"}
  /\ Depth(r) = 0
  /\ req' = [req EXCEPT ![r].state = "done"]
  /\ UNCHANGED <<program, adapters, server, trace, ctx, mgo, clears>>

\* http.NotFound
NotFound(r) ==
  /\ Calling(r, "NotFound")
  /\ Terminal(r, StatusNotFound, "ret", Nil)
  /\ UNCHANGED <<program, adapters, server, ctx, mgo, clears>>

-----------------------------------------------------------------------------
(* The middleware layers.                                                   *)

\* logging that logs and returns without calling f.
loggingSkips(r) ==
  /\ Calling(r, "logging")
  /\ req' = [req EXCEPT ![r].mode = "ret"]
  /\ trace' = [trace EXCEPT ![r] = Append(@, Event(r, "pre"))]
  /\ UNCHANGED <<program, adapters, server, ctx, mgo, clears>>

\* logging: log.Println(r.URL.Path); f(w, r)
loggingServe(r) ==
  /\ Calling(r, "logging")
  /\ CallNext(r, 0)
  /\ UNCHANGED <<program, adapters, server, ctx, mgo, clears>>

\* wrapper.ServeHTTP, up to and including h.handler.ServeHTTP(w, r)
wrapperServe(r) ==
  /\ Calling(r, "wrapper")
  /\ CallNext(r, 0)
  /\ UNCHANGED <<program, adapters, server, ctx, mgo, clears>>

\* wrapper.ServeHTTP, the code after the call (not deferred)
wrapperAfter(r) ==
  /\ BackIn(r, "wrapper")
  /\ req[r].mode = "ret"
  /\ Leave(r, "post")
  /\ UNCHANGED <<program, adapters, server, ctx, mgo, clears>>

\* dbwrapper.ServeHTTP storing the copy under another key than "db".
dbwrapperServeWrongKey(r) ==
  /\ Calling(r, "dbwrapper")
  /\ LET dbcopy == Len(mgo.copies) + 1 IN
       /\ mgo' = SessionCopy(mgo, r)
       /\ ctx' = ContextSet(ctx, r, "logger", SessionVal(dbcopy))
       /\ CallNext(r, dbcopy)
  /\ UNCHANGED <<program, adapters, server, clears>>

\* dbwrapper.ServeHTTP with dbcopy.Close() called at once, not deferred.
dbwrapperServeCloseEarly(r) ==
  /\ Calling(r, "dbwrapper")
  /\ LET dbcopy == Len(mgo.copies) + 1 IN
       /\ mgo' = SessionClose(SessionCopy(mgo, r), dbcopy, r)
       /\ ctx' = ContextSet(ctx, r, "db", SessionVal(dbcopy))
       /\ CallNext(r, dbcopy)
  /\ UNCHANGED <<program, adapters, server, clears>>

\* dbwrapper.ServeHTTP: copy the session, defer its Close, store it in the
\* context, serve the request
dbwrapperServe(r) ==
  /\ Calling(r, "dbwrapper")
  /\ LET dbcopy == Len(mgo.copies) + 1 IN
       /\ mgo' = SessionCopy(mgo, r)
       /\ ctx' = ContextSet(ctx, r, "db", SessionVal(dbcopy))
       /\ CallNext(r, dbcopy)
  /\ UNCHANGED <<program, adapters, server, clears>>

\* dbwrapper.ServeHTTP closing the copy by a plain statement after the call:
\* a panic skips it.
dbwrapperCloseNotDeferred(r) ==
  /\ BackIn(r, "dbwrapper")
  /\ mgo' = IF req[r].mode = "ret" THEN SessionClose(mgo, req[r].frames[Depth(r)], r) ELSE mgo
  /\ Leave(r, IF req[r].mode = "ret" THEN "post" ELSE "exit")
  /\ UNCHANGED <<program, adapters, server, ctx, clears>>

\* dbwrapper.ServeHTTP deferring the Close of dbSession, not of dbcopy.
dbwrapperClosesBase(r) ==
  /\ BackIn(r, "dbwrapper")
  /\ mgo' = [mgo EXCEPT !.base = @ + 1]
  /\ Leave(r, "post")
  /\ UNCHANGED <<program, adapters, server, ctx, clears>>

\* dbwrapper.ServeHTTP: the deferred dbcopy.Close()
dbwrapperDefer(r) ==
  /\ BackIn(r, "dbwrapper")
  /\ mgo' = SessionClose(mgo, req[r].frames[Depth(r)], r)
  /\ Leave(r, "post")
  /\ UNCHANGED <<program, adapters, server, ctx, clears>>

\* context.ClearHandler: defer Clear(r); h.ServeHTTP(w, r)
ClearHandlerServe(r) ==
  /\ Calling(r, "ClearHandler")
  /\ CallNext(r, 0)
  /\ UNCHANGED <<program, adapters, server, ctx, mgo, clears>>

\* context.ClearHandler: the deferred Clear(r)
ClearHandlerDefer(r) ==
  /\ BackIn(r, "ClearHandler")
  /\ ctx' = ContextClear(ctx, r)
  /\ clears' = [clears EXCEPT ![r] = @ + 1]
  /\ Leave(r, "post")
  /\ UNCHANGED <<program, adapters, server, mgo>>

\* Notify with the defer keyword left out: "after" is logged before the call.
NotifyServeNoDefer(r) ==
  /\ Calling(r, "Notify")
  /\ req' = [req EXCEPT ![r].frames = Append(@, 0)]
  /\ trace' = [trace EXCEPT ![r] = @ \o <<Event(r, "pre"), Event(r, "post")>>]
  /\ UNCHANGED <<program, adapters, server, ctx, mgo, clears>>

\* Notify: log.Println("before"); defer log.Println("after"); h.ServeHTTP(w, r)
NotifyServe(r) ==
  /\ Calling(r, "Notify")
  /\ CallNext(r, 0)
  /\ UNCHANGED <<program, adapters, server, ctx, mgo, clears>>

\* Notify with "after" logged by a plain statement after the call: a panic
\* skips it.
NotifyAfterNotDeferred(r) ==
  /\ BackIn(r, "Notify")
  /\ Leave(r, IF req[r].mode = "ret" THEN "post" ELSE "exit")
  /\ UNCHANGED <<program, adapters, server, ctx, mgo, clears>>

\* Notify: the deferred log.Println("after")
NotifyDefer(r) ==
  /\ BackIn(r, "Notify")
  /\ Leave(r, "post")
  /\ UNCHANGED <<program, adapters, server, ctx, mgo, clears>>

\* addHeader: add the response header, call the next handler
addHeaderServe(r) ==
  /\ Calling(r, "addHeader")
  /\ req' = [req EXCEPT ![r].frames = Append(@, 0), ![r].header = TRUE]
  /\ trace' = [trace EXCEPT ![r] = Append(@, Event(r, "pre"))]
  /\ UNCHANGED <<program, adapters, server, ctx, mgo, clears>>

\* CheckAuth that writes the error and, lacking a return, calls on.
CheckAuthFallsThrough(r) ==
  /\ Calling(r, "CheckAuth")
  /\ req' = [req EXCEPT ![r].frames = Append(@, 0),
                        ![r].status = IF req[r].auth \/ @ # 0 THEN @ ELSE StatusUnauthorized]
  /\ trace' = [trace EXCEPT ![r] = Append(@, Event(r, "pre"))]
  /\ UNCHANGED <<program, adapters, server, ctx, mgo, clears>>

\* CheckAuth: check auth credentials and bail if failed
CheckAuthServe(r) ==
  /\ Calling(r, "CheckAuth")
  /\ IF req[r].auth
     THEN CallNext(r, 0)
     ELSE /\ req' = [req EXCEPT ![r].mode = "ret",
                                ![r].status = IF @ = 0 THEN StatusUnauthorized ELSE @]
          /\ trace' = [trace EXCEPT ![r] = Append(@, Event(r, "reject"))]
  /\ UNCHANGED <<program, adapters, server, ctx, mgo, clears>>

\* CopyMgoSession: copy the database session and make it available to the
\* handler
CopyMgoSessionServe(r) ==
  /\ Calling(r, "CopyMgoSession")
  /\ LET dbcopy == Len(mgo.copies) + 1 IN
       /\ mgo' = SessionCopy(mgo, r)
       /\ ctx' = ContextSet(ctx, r, "db", SessionVal(dbcopy))
       /\ CallNext(r, dbcopy)
  /\ UNCHANGED <<program, adapters, server, clears>>

\* CopyMgoSession: its deferred function, closing the copy
CopyMgoSessionDefer(r) ==
  /\ BackIn(r, "CopyMgoSession")
  /\ mgo' = SessionClose(mgo, req[r].frames[Depth(r)], r)
  /\ Leave(r, "post")
  /\ UNCHANGED <<program, adapters, server, ctx, clears>>

\* prepareSomething: context.Set(r, "logger", logger); the next handler of
\* the request runs after it
prepareSomething(r) ==
  /\ Calling(r, "prepareSomething")
  /\ ctx' = ContextSet(ctx, r, "logger", logger)
  /\ CallNext(r, 0)
  /\ UNCHANGED <<program, adapters, server, mgo, clears>>

\* http.StripPrefix: serve the request with the prefix removed from its
\* path, or reply not found to a path that lacks the prefix
StripPrefixServe(r) ==
  /\ Calling(r, "StripPrefix")
  /\ IF HasStaticPrefix(req[r].path)
     THEN /\ req' = [req EXCEPT ![r].frames = Append(@, 0),
                                ![r].file = TrimStaticPrefix(req[r].path)]
          /\ trace' = [trace EXCEPT ![r] = Append(@, Event(r, "pre"))]
     ELSE /\ req' = [req EXCEPT ![r].mode = "ret",
                                ![r].status = IF @ = 0 THEN StatusNotFound ELSE @]
          /\ trace' = [trace EXCEPT ![r] = Append(@, Event(r, "reject"))]
  /\ UNCHANGED <<program, adapters, server, ctx, mgo, clears>>

-----------------------------------------------------------------------------
(* The terminal handlers.                                                   *)

\* The /books handler reading a misspelt variable name.
bookHandlerTypo(r) ==
  /\ Calling(r, "bookHandler")
  /\ req' = [req EXCEPT ![r].mode = "ret",
                        ![r].status = IF @ = 0 THEN StatusOK ELSE @,
                        ![r].out = <<VarsGet(req[r].vars, "tittle"),
                                     VarsGet(req[r].vars, "page")>>]
  /\ trace' = [trace EXCEPT ![r] = Append(@, Event(r, "run"))]
  /\ UNCHANGED <<program, adapters, server, ctx, mgo, clears>>

\* The handler of /books/{title}/page/{page}: vars := mux.Vars(r); it prints
\* the book vars["title"] and the page vars["page"]
bookHandler(r) ==
  /\ Calling(r, "bookHandler")
  /\ req' = [req EXCEPT ![r].mode = "ret",
                        ![r].status = IF @ = 0 THEN StatusOK ELSE @,
                        ![r].out = <<VarsGet(req[r].vars, "title"),
                                     VarsGet(req[r].vars, "page")>>]
  /\ trace' = [trace EXCEPT ![r] = Append(@, Event(r, "run"))]
  /\ UNCHANGED <<program, adapters, server, ctx, mgo, clears>>

\* respond with the status written before the data is encoded.
respondHeaderFirst(w, log, status, encodes, copies) ==
  IF ~encodes
  THEN [w |-> w \o << <<"WriteHeader", status>>,
                      <<"WriteHeader", StatusInternalServerError>>, <<"Write", "error">> >>,
        log |-> log]
  ELSE [w |-> w \o << <<"WriteHeader", status>>,
                      <<"Write", IF copies THEN "json" ELSE "partial">> >>,
        log |-> IF copies THEN log ELSE Append(log, "respond:")]

\* respond(w, r, status, data): encode data into a buffer; if that fails,
\* http.Error with the internal-server-error status and return; else
\* w.WriteHeader(status), io.Copy the buffer to w, log a failed copy.
\* encodes and copies say whether the encoding and the copy succeed.
respond(w, log, status, encodes, copies) ==
  IF ~encodes
  THEN [w |-> w \o << <<"WriteHeader", StatusInternalServerError>>, <<"Write", "error">> >>,
        log |-> log]
  ELSE [w |-> w \o << <<"WriteHeader", status>>,
                      <<"Write", IF copies THEN "json" ELSE "partial">> >>,
        log |-> IF copies THEN log ELSE Append(log, "respond:")]

\* handleSomething: data, err := LoadSomething(); respond with the error and
\* the internal-server-error status, or with the data and the OK status
handleSomething(r) ==
  /\ Calling(r, "handleSomething")
  /\ \E loaderr, encodes, copies \in BOOLEAN :
       /\ ~encodes => copies
       /\ LET st == IF loaderr THEN StatusInternalServerError ELSE StatusOK
              res == respond(req[r].w, req[r].log, st, encodes, copies)
          IN req' = [req EXCEPT ![r].mode = "ret",
                                ![r].status = res.w[1][2],
                                ![r].w = res.w,
                                ![r].log = res.log,
                                ![r].input = [status |-> st, encodes |-> encodes,
                                              copies |-> copies]]
  /\ trace' = [trace EXCEPT ![r] = Append(@, Event(r, "run"))]
  /\ UNCHANGED <<program, adapters, server, ctx, mgo, clears>>

\* The todo handler: tmpl.Execute(w, data), its error not looked at.  Execute
\* writes what it has rendered (the first write sends status 200) and fails
\* on a template that does not fit the data, or when the write fails.
todoHandler(r) ==
  /\ Calling(r, "todoHandler")
  /\ \E fails \in BOOLEAN :
       /\ server.tmpl = "mismatch" => fails
       /\ req' = [req EXCEPT ![r].mode = "ret",
                             ![r].status = IF @ = 0 THEN StatusOK ELSE @,
                             ![r].w = @ \o << <<"WriteHeader", StatusOK>>,
                                             <<"Write", IF fails THEN "partial" ELSE "html">> >>,
                             ![r].err = fails]
  /\ trace' = [trace EXCEPT ![r] = Append(@, Event(r, "run"))]
  /\ UNCHANGED <<program, adapters, server, ctx, mgo, clears>>

\* http.FileServer(http.Dir("static/")): the file named by the path, or not
\* found
FileServer(r) ==
  /\ Calling(r, "FileServer")
  /\ \/ Terminal(r, StatusOK, "ret", Nil)
     \/ Terminal(r, StatusNotFound, "ret", Nil)
  /\ UNCHANGED <<program, adapters, server, ctx, mgo, clears>>

\* foo: fmt.Fprintln(w, "foo")
foo(r) ==
  /\ Calling(r, "foo")
  /\ Terminal(r, StatusOK, "ret", Nil)
  /\ UNCHANGED <<program, adapters, server, ctx, mgo, clears>>

\* bar: fmt.Fprintln(w, "bar")
bar(r) ==
  /\ Calling(r, "bar")
  /\ Terminal(r, StatusOK, "ret", Nil)
  /\ UNCHANGED <<program, adapters, server, ctx, mgo, clears>>

\* NewMyHandler(): the application's handler; it responds or panics
handler(r) ==
  /\ Calling(r, "handler")
  /\ \/ Terminal(r, StatusOK, "ret", Nil)
     \/ Terminal(r, 0, "panic", Nil)
  /\ UNCHANGED <<program, adapters, server, ctx, mgo, clears>>

\* handleThingsRead: db := context.Get(r, "db").(*mgo.Session); query; respond.
\* The type assertion panics on a value that is no session, and mgo panics
\* on a session that is closed.
handleThingsRead(r) ==
  /\ Calling(r, "handleThingsRead")
  /\ LET db == ContextGet(ctx, r, "db") IN
       IF db.kind # "session" \/ mgo.copies[db.id].closes > 0
       THEN Terminal(r, 0, "panic", db)
       ELSE \/ Terminal(r, StatusOK, "ret", db)
            \/ Terminal(r, StatusInternalServerError, "ret", db)
            \/ Terminal(r, 0, "panic", db)
  /\ UNCHANGED <<program, adapters, server, ctx, mgo, clears>>

\* handleStatus
handleStatus(r) ==
  /\ Calling(r, "handleStatus")
  /\ Terminal(r, StatusOK, "ret", Nil)
  /\ UNCHANGED <<program, adapters, server, ctx, mgo, clears>>

\* indexHandler: the main business code, with the session made available
\* to it; it responds or panics
indexHandler(r) ==
  /\ Calling(r, "indexHandler")
  /\ LET db == ContextGet(ctx, r, "db") IN
       \/ Terminal(r, StatusOK, "ret", db)
       \/ Terminal(r, 0, "panic", db)
  /\ UNCHANGED <<program, adapters, server, ctx, mgo, clears>>

\* handleSomethingElse: logger := context.Get(r, "logger").(*log.Logger)
handleSomethingElse(r) ==
  /\ Calling(r, "handleSomethingElse")
  /\ LET l == ContextGet(ctx, r, "logger") IN
       IF l.kind # "logger"
       THEN Terminal(r, 0, "panic", l)
       ELSE Terminal(r, StatusOK, "ret", l)
  /\ UNCHANGED <<program, adapters, server, ctx, mgo, clears>>

Next ==
  \/ main
  \/ \E r \in Requests :
    \/ Accept(r)
    \/ ServeMuxServe(r)
    \/ RouterServe(r)
    \/ Return(r)
    \/ Finish(r)
    \/ NotFound(r)
    \/ loggingServe(r)
    \/ wrapperServe(r)
    \/ wrapperAfter(r)
    \/ dbwrapperServe(r)
    \/ dbwrapperDefer(r)
    \/ ClearHandlerServe(r)
    \/ ClearHandlerDefer(r)
    \/ NotifyServe(r)
    \/ NotifyDefer(r)
    \/ addHeaderServe(r)
    \/ CheckAuthServe(r)
    \/ CopyMgoSessionServe(r)
    \/ CopyMgoSessionDefer(r)
    \/ prepareSomething(r)
    \/ foo(r)
    \/ bar(r)
    \/ handler(r)
    \/ handleThingsRead(r)
    \/ handleStatus(r)
    \/ indexHandler(r)
    \/ handleSomethingElse(r)
    \/ StripPrefixServe(r)
    \/ bookHandler(r)
    \/ FileServer(r)
    \/ todoHandler(r)
    \/ handleSomething(r)

Spec == Init /\ [][Next]_vars

-----------------------------------------------------------------------------
(* Reading a request's trace.                                               *)

Pos(e) == e[1]
Name(e) == e[2]
Phase(e) == e[3]
IsPre(e) == Phase(e) = "pre"
IsLeaf(e) == Phase(e) \in {"run", "reject"}
IsExit(e) == Phase(e) \in {"post", "exit"}

Reverse(s) == [i \in 1..Len(s) |-> s[Len(s) + 1 - i]]
NamesOf(s) == [i \in 1..Len(s) |-> Name(s[i])]
PreNames(t) == NamesOf(SelectSeq(t, IsPre))
ExitNames(t) == NamesOf(SelectSeq(t, IsExit))
LeafNames(t) == NamesOf(SelectSeq(t, IsLeaf))
\* Layers entered and not yet left after the first i events of t.
RECURSIVE Open(_, _)
Open(t, i) ==
  IF i = 0 THEN 0
  ELSE Open(t, i - 1) + (IF IsPre(t[i]) THEN 1 ELSE IF IsExit(t[i]) THEN -1 ELSE 0)
\* Every event happens at the top of the stack of layers open before it.
WellNested(t) ==
  \A i \in 1..Len(t) :
    Pos(t[i]) = IF IsExit(t[i]) THEN Open(t, i - 1) ELSE Open(t, i - 1) + 1
\* What ran, as <<layer, before | handler | after>>.
Coarse(ph) == IF ph = "pre" THEN "before" ELSE IF ph \in {"post", "exit"} THEN "after" ELSE ph
Flow(t) == [i \in 1..Len(t) |-> <<Name(t[i]), Coarse(Phase(t[i]))>>]
\* The events of the handler registered for the route (below the mux).
Below(t) == SelectSeq(t, LAMBDA e : Pos(e) >= 2)

Done(r) == req[r].state = "done"
Rejected(r) == \E i \in 1..Len(trace[r]) : Phase(trace[r][i]) = "reject"
Ran(r, h) == \E i \in 1..Len(trace[r]) : Name(trace[r][i]) = h /\ Phase(trace[r][i]) = "run"
Panicked(r) == req[r].mode = "panic"
\* Number of times the handler at position p was invoked for request r.
Invocations(r, p) ==
  Cardinality({i \in 1..Len(trace[r]) :
                 Pos(trace[r][i]) = p /\ (IsPre(trace[r][i]) \/ IsLeaf(trace[r][i]))})

-----------------------------------------------------------------------------
\* C1: for adapters A (outer) and B (inner) around a handler H, a request
\* runs A's before-code, B's before-code, H, B's after-code, A's after-code,
\* in that order; in any chain each layer is left only after everything it
\* called, so the after-code runs in the reverse order of the before-code.
AdapterChainOrdering ==
  \A r \in Requests :
    /\ WellNested(trace[r])
    /\ Done(r) => ExitNames(trace[r]) = Reverse(PreNames(trace[r]))
    /\ (Done(r) /\ program = "adapt" /\ Len(adapters) = 2 /\ ~Rejected(r)) =>
         LET A == req[r].chain[2]
             B == req[r].chain[3]
             H == req[r].chain[4]
         IN Flow(Below(trace[r])) =
              << <<A, "before">>, <<B, "before">>, <<H, "run">>,
                 <<B, "after">>, <<A, "after">> >>

\* A request through two different adapters has completed.
TwoAdaptersServed ==
  \E r \in Requests :
    /\ Done(r) /\ program = "adapt" /\ Len(adapters) = 2 /\ ~Rejected(r)
    /\ req[r].chain[2] = "Notify" /\ req[r].chain[3] = "CopyMgoSession"
    /\ Ran(r, "indexHandler")

\* C2: Adapt makes the last adapter of its argument list the outermost
\* wrapper and the first one the innermost; the documented call runs Notify,
\* CopyMgoSession, CheckAuth, AddHeader, IndexHandler and then leaves
\* AddHeader, CheckAuth, CopyMgoSession, Notify.
AdaptLastIsOutermost ==
  \A r \in Requests :
    program = "adapt" =>
      LET below == Below(trace[r])
          pre == PreNames(below)
      IN
      /\ \A i \in 1..Len(pre) : pre[i] = adapters[Len(adapters) + 1 - i]
      /\ Ran(r, "indexHandler") => pre = Reverse(adapters)
      /\ (Done(r) /\ adapters = DocumentedAdapters /\ ~Rejected(r)) =>
           NamesOf(below) =
             <<"Notify", "CopyMgoSession", "CheckAuth", "addHeader", "indexHandler",
               "addHeader", "CheckAuth", "CopyMgoSession", "Notify">>

\* A request through the documented chain has completed.
DocumentedChainServed ==
  \E r \in Requests :
    /\ Done(r) /\ program = "adapt" /\ adapters = DocumentedAdapters
    /\ Ran(r, "indexHandler") /\ ~Panicked(r)

CallThroughLayers == {"logging", "wrapper", "dbwrapper", "Notify"}
WrappedHandlerCalledOnce ==
  \A r \in Requests :
    /\ \A p \in 1..(Len(req[r].chain) + 1) : Invocations(r, p) <= 1
    /\ \A i \in 1..Len(trace[r]) :
         (IsPre(trace[r][i]) /\ Name(trace[r][i]) \in CallThroughLayers) =>
           /\ Done(r) => Invocations(r, Pos(trace[r][i]) + 1) = 1
           /\ i < Len(trace[r]) =>
                /\ Pos(trace[r][i + 1]) = Pos(trace[r][i]) + 1
                /\ IsPre(trace[r][i + 1]) \/ IsLeaf(trace[r][i + 1])
    /\ (Done(r) /\ \A p \in 2..(Len(req[r].chain) - 1) :
                     req[r].chain[p] \in CallThroughLayers \cup {"Router"}) =>
         Len(LeafNames(trace[r])) = 1

\* A request has gone through logging and a request through Wrap.
CallThroughServed ==
  \E r \in Requests :
    /\ Done(r)
    /\ \/ program = "logging" /\ Ran(r, "foo")
       \/ program = "wrap" /\ Ran(r, "handler")

\* C5: the deferred cleanup of Notify and of WithDB runs after the wrapped
\* handler's call has ended, and runs whether that call returned or
\* panicked.
DeferredLayers == {"Notify", "dbwrapper"}
CleanupOnEveryExit ==
  \A r \in Requests :
    /\ \A j \in 1..Len(trace[r]) :
         (Phase(trace[r][j]) = "post" /\ Name(trace[r][j]) \in DeferredLayers) =>
           /\ j > 1
           /\ Pos(trace[r][j - 1]) = Pos(trace[r][j]) + 1
           /\ IsLeaf(trace[r][j - 1]) \/ IsExit(trace[r][j - 1])
    /\ Done(r) =>
         /\ \A i \in 1..Len(trace[r]) :
              (IsPre(trace[r][i]) /\ Name(trace[r][i]) \in DeferredLayers) =>
                \E j \in (i + 1)..Len(trace[r]) :
                  trace[r][j] = <<Pos(trace[r][i]), Name(trace[r][i]), "post">>
         /\ program = "things" =>
              \A i \in 1..Len(mgo.copies) :
                mgo.copies[i].owner = r => mgo.copies[i].closes >= 1

\* A panic has unwound through Notify, and one through WithDB.
PanicUnwound ==
  \E r \in Requests :
    /\ Done(r) /\ Panicked(r)
    /\ \E i \in 1..Len(trace[r]) :
         Phase(trace[r][i]) = "post" /\ Name(trace[r][i]) \in DeferredLayers

\* C6: a request CheckAuth rejects gets the unauthorized status, and neither
\* an adapter nested inside CheckAuth nor the terminal handler runs for it.
RejectTerminatesChain ==
  \A r \in Requests :
    \A i \in 1..Len(trace[r]) :
      (Name(trace[r][i]) = "CheckAuth" /\ ~req[r].auth) =>
        /\ req[r].status = StatusUnauthorized
        /\ \A j \in 1..Len(trace[r]) : Pos(trace[r][j]) <= Pos(trace[r][i])
        /\ ~Ran(r, "indexHandler")
        /\ ~req[r].header \/ (\E j \in 1..(i - 1) : Name(trace[r][j]) = "addHeader")

\* A rejected request has completed.
RejectedRequestDone ==
  \E r \in Requests :
    Done(r) /\ Rejected(r) /\ ~req[r].auth /\ adapters = DocumentedAdapters

\* C7: what WithDB stored under "db", and prepareSomething under "logger",
\* is what context.Get returns for that key in the handlers that run later
\* in the same request.
ContextValueVisible ==
  \A r \in Requests :
    /\ \A p \in 1..Depth(r) :
         /\ req[r].chain[p] = "dbwrapper" =>
              /\ ContextGet(ctx, r, "db") = SessionVal(req[r].frames[p])
              /\ Ran(r, "handleThingsRead") => req[r].got = SessionVal(req[r].frames[p])
         /\ req[r].chain[p] = "prepareSomething" =>
              /\ ContextGet(ctx, r, "logger") = logger
              /\ Ran(r, "handleSomethingElse") => req[r].got = logger
    /\ Ran(r, "handleThingsRead") => req[r].got.kind = "session"
    /\ Ran(r, "handleSomethingElse") => req[r].got = logger

\* handleThingsRead has read the session while WithDB is on the stack.
ThingsReadGotSession ==
  \E r \in Requests :
    /\ Ran(r, "handleThingsRead") /\ req[r].got.kind = "session"
    /\ Depth(r) >= 3 /\ req[r].chain[3] = "dbwrapper"

\* C8: no request's context holds, and no context read returns, a value set
\* for another request: every session a request sees is its own copy.
ContextIsolation ==
  \A r \in Requests :
    /\ \A k \in Keys :
         ctx[r][k].kind = "session" => mgo.copies[ctx[r][k].id].owner = r
    /\ req[r].got.kind = "session" => mgo.copies[req[r].got.id].owner = r
    /\ \A q \in Requests :
         (q # r /\ req[r].got.kind = "session") => req[q].got # req[r].got

\* Two /things requests are inside WithDB at once, each holding a session.
TwoRequestsInsideWithDB ==
  \E r, q \in Requests :
    /\ r # q
    /\ Depth(r) >= 3 /\ Depth(q) >= 3
    /\ req[r].chain[3] = "dbwrapper" /\ req[q].chain[3] = "dbwrapper"
    /\ req[r].got.kind = "session" /\ req[q].got.kind = "session"

\* C9: by the time a request served behind context.ClearHandler is done, the
\* session WithDB copied for it was closed exactly once and its context was
\* cleared exactly once, whatever the terminal handler did.
ReleasedExactlyOnce ==
  /\ \A i \in 1..Len(mgo.copies) : mgo.copies[i].closes <= 1
  /\ \A r \in Requests :
       /\ clears[r] <= 1
       /\ (Done(r) /\ program = "things") =>
            /\ clears[r] = 1
            /\ ctx[r] = EmptyContext
            /\ \A i \in 1..Len(mgo.copies) :
                 mgo.copies[i].owner = r =>
                   mgo.copies[i].closes = 1 /\ mgo.copies[i].closedBy = r
            /\ req[r].path = <<"things">> =>
                 Cardinality({i \in 1..Len(mgo.copies) : mgo.copies[i].owner = r}) = 1

\* /things requests have completed in each of the three ways.
ThingsReleasedAfterPanic ==
  \E r \in Requests :
    /\ Done(r) /\ Panicked(r) /\ program = "things" /\ req[r].path = <<"things">>
    /\ clears[r] = 1
    /\ \E i \in 1..Len(mgo.copies) : mgo.copies[i].owner = r /\ mgo.copies[i].closes = 1

\* C10: with /foo and /bar registered, a request to /foo runs foo and never
\* bar, a request to /bar runs bar and never foo, and any other path runs
\* neither.
DistinctRoutesDispatch ==
  \A r \in Requests :
    (program = "logging" /\ req[r].state # "idle") =>
      /\ req[r].path = <<"foo">> =>
           ~Ran(r, "bar") /\ (Done(r) => LeafNames(trace[r]) = <<"foo">>)
      /\ req[r].path = <<"bar">> =>
           ~Ran(r, "foo") /\ (Done(r) => LeafNames(trace[r]) = <<"bar">>)
      /\ req[r].path \notin {<<"foo">>, <<"bar">>} =>
           ~Ran(r, "foo") /\ ~Ran(r, "bar")

\* A request to /foo and a request to /bar have both been served.
FooAndBarServed ==
  \E r, q \in Requests :
    /\ program = "logging" /\ Done(r) /\ Done(q)
    /\ req[r].path = <<"foo">> /\ req[q].path = <<"bar">>

\* C11: a path /books/T/page/P, T and P single segments, reaches the handler
\* of /books/{title}/page/{page} with title = T and page = P; a path with
\* more segments in a placeholder's place does not reach it.
BooksRouteBindsVars ==
  \A r \in Requests :
    (program = "books" /\ req[r].state # "idle") =>
      LET p == req[r].path IN
        /\ (Len(p) = 4 /\ p[1] = "books" /\ p[3] = "page" /\ p[2] # "" /\ p[4] # "") =>
             /\ Depth(r) >= 1 =>
                  /\ req[r].chain[2] = "bookHandler"
                  /\ req[r].vars = {<<"title", p[2]>>, <<"page", p[4]>>}
             /\ Ran(r, "bookHandler") => req[r].out = <<p[2], p[4]>>
             /\ Done(r) => LeafNames(trace[r]) = <<"bookHandler">>
        /\ Ran(r, "bookHandler") =>
             Len(p) = 4 /\ p[1] = "books" /\ p[3] = "page"

\* /books/dune/page/10 has been served.
DunePageTenServed ==
  \E r \in Requests :
    /\ program = "books" /\ Done(r)
    /\ req[r].path = <<"books", "dune", "page", "10">>
    /\ req[r].out = <<"dune", "10">>

\* C12: in every example that registers /static/, a request whose path
\* begins with /static/ reaches the file server with the prefix stripped.
StaticPrefixReachesFileServer ==
  \A r \in Requests :
    (program \in {"books", "static"} /\ Done(r) /\ HasStaticPrefix(req[r].path)) =>
      /\ Ran(r, "FileServer")
      /\ req[r].file = Tail(req[r].path)

\* C13: a template that fails to render at request time gets a server-error
\* status and a log line; a malformed template ends the process at load
\* time, before any request is accepted.
RenderFailureReported ==
  /\ server.tmpl = "malformed" => \A r \in Requests : req[r].state = "idle"
  /\ \A r \in Requests :
       (program = "todo" /\ Done(r) /\ req[r].err) =>
         /\ req[r].status = StatusInternalServerError
         /\ req[r].log # <<>>
         /\ Invocations(r, 2) = 1

\* C14: a GET /things goes through these steps and in this order: the router
\* hands it to WithDB, WithDB copies the session and stores the copy, calls
\* handleThingsRead, which reads the session; the deferred Close runs as
\* WithDB exits; only then ClearHandler clears the context.  So the handler
\* never gets a closed session or a cleared context.
ThingsLifecycle ==
  << <<1, "ClearHandler", "pre">>, <<2, "Router", "pre">>, <<3, "dbwrapper", "pre">>,
     <<4, "handleThingsRead", "run">>, <<3, "dbwrapper", "post">>,
     <<2, "Router", "exit">>, <<1, "ClearHandler", "post">> >>
ThingsLifecycleOrder ==
  \A r \in Requests :
    (program = "things" /\ req[r].path = <<"things">>) =>
      /\ trace[r] = SubSeq(ThingsLifecycle, 1, Len(trace[r]))
      /\ Done(r) => trace[r] = ThingsLifecycle
      \* the copy is open and in the context from WithDB's call to its exit
      /\ (Len(trace[r]) \in 3..4) =>
           /\ ctx[r]["db"].kind = "session"
           /\ mgo.copies[ctx[r]["db"].id].closes = 0
           /\ clears[r] = 0
      /\ Len(trace[r]) >= 4 =>
           /\ req[r].got.kind = "session"
           /\ req[r].got = SessionVal(CHOOSE i \in 1..Len(mgo.copies) : mgo.copies[i].owner = r)
      \* closed on WithDB's exit, cleared only on ClearHandler's
      /\ Len(trace[r]) >= 5 => mgo.copies[req[r].got.id].closes = 1
      /\ Len(trace[r]) \in 5..6 => clears[r] = 0 /\ ctx[r]["db"] = req[r].got
      /\ Len(trace[r]) = 7 => clears[r] = 1 /\ ctx[r] = EmptyContext

\* A GET /things has been answered with its lifecycle complete.
ThingsAnswered ==
  \E r \in Requests :
    /\ program = "things" /\ req[r].path = <<"things">> /\ Done(r)
    /\ req[r].status = StatusOK /\ trace[r] = ThingsLifecycle

\* C15: every session copy belongs to the one request that made it: the
\* copies that are open are exactly those held by requests inside WithDB
\* (or CopyMgoSession), a copy is closed only by its owner, the dialled
\* session is never closed by a request, and when all requests are done no
\* copy is open.
HeldCopies(r) ==
  {req[r].frames[p] : p \in {q \in 1..Depth(r) :
                               req[r].chain[q] \in {"dbwrapper", "CopyMgoSession"}}}
OpenCopies == {i \in 1..Len(mgo.copies) : mgo.copies[i].closes = 0}
RejectedFlow ==
  << <<"Notify", "before">>, <<"CopyMgoSession", "before">>, <<"CheckAuth", "reject">>,
     <<"CopyMgoSession", "after">>, <<"Notify", "after">> >>
WriteHeaders(w) == SelectSeq(w, LAMBDA op : op[1] = "WriteHeader")
RespondWritesOneStatus ==
  \A r \in Requests :
    Ran(r, "handleSomething") =>
      LET i == req[r].input
          w == req[r].w
      IN /\ Len(WriteHeaders(w)) = 1
         /\ ~i.encodes =>
              /\ w = << <<"WriteHeader", StatusInternalServerError>>, <<"Write", "error">> >>
              /\ req[r].log = <<>>
         /\ i.encodes =>
              /\ w = << <<"WriteHeader", i.status>>,
                        <<"Write", IF i.copies THEN "json" ELSE "partial">> >>
              /\ (req[r].log # <<>>) <=> ~i.copies
         /\ req[r].status = w[1][2]

\* respond has failed to encode data it was to send with the OK status, and
\* has failed to copy a body.
RespondFailuresSeen ==
  /\ \E r \in Requests :
       /\ Ran(r, "handleSomething") /\ ~req[r].input.encodes
       /\ req[r].input.status = StatusOK
  /\ \E r \in Requests :
       Ran(r, "handleSomething") /\ req[r].input.encodes /\ ~req[r].input.copies

====
